---- MODULE Spec2Model ----
(***************************************************************************)
(* WATRS recommendation pipeline (backend/services/recommendation.py).     *)
(*                                                                         *)
(* One request of get_recommendations is modelled as a sequential process  *)
(* (pc) over the three phases of the pipeline; the geospatial store, the   *)
(* weather provider and the wall clock are its environment.                *)
(*                                                                         *)
(* Numbers.  Scores, comfort values and hidden_percentile are Python       *)
(* floats that the code rounds to 4 decimals; they are kept here as        *)
(* integers in units of 1/10000 (0.4 is 4000).  Temperatures are in tenths *)
(* of a degree Celsius, distances in millimetres before rounding and in    *)
(* centimetres after round(dist_m, 2).  round() is round-half-to-even on   *)
(* the exact value.                                                        *)
(*                                                                         *)
(* Text.  A Python str is a sequence of one-character strings, so that     *)
(* str.lower(), str.strip() and the substring test `a in b` are computed.  *)
(***************************************************************************)
EXTENDS Integers, Sequences, FiniteSets, TLC

(***************************************************************************)
(* Bounds of the model                                                     *)
(***************************************************************************)
\* number of places in the store catalogue (and largest geo result)
MaxCand == 8
\* longest tag list passed to _vibe_score on its own
MaxTags == 2
\* live temperatures passed to _comfort_from_weather on its own: -MaxTemp..MaxTemp degrees
MaxTemp == 60
\* concurrent calls of submit_feedback
MaxFeedback == 2

(***************************************************************************)
(* Program constants                                                       *)
(***************************************************************************)
W_VIBE == 4000
W_WEATHER == 3000
W_HIDDEN == 3000
MIN_COMFORT_SCORE == 4000
INACCESSIBLE_ROAD == "boat_only"
TOP_K == 5
DEFAULT_COMFORT == 5000
ONE == 10000

_MONTH_ABBR ==
    << "Jan", "Feb", "Mar", "Apr", "May", "Jun",
       "Jul", "Aug", "Sep", "Oct", "Nov", "Dec" >>

\* the text appended to warnings, and the text the code tests for
WARNING_TEXT == "Live weather unavailable - using historical comfort data for some results"
WARNING_PROBE == "Live weather unavailable"

(***************************************************************************)
(* Strings as character sequences                                          *)
(***************************************************************************)
UpperChars == << "A","B","C","D","E","F","G","H","I","J","K","L","M",
                 "N","O","P","Q","R","S","T","U","V","W","X","Y","Z" >>
LowerChars == << "a","b","c","d","e","f","g","h","i","j","k","l","m",
                 "n","o","p","q","r","s","t","u","v","w","x","y","z" >>

LowerChar(c) ==
    IF \E k \in 1..26 : UpperChars[k] = c
    THEN LowerChars[CHOOSE k \in 1..26 : UpperChars[k] = c]
    ELSE c

\* str.lower()
Lower(s) == [k \in 1..Len(s) |-> LowerChar(s[k])]

\* `a in b` for two str values
IsSubstring(a, b) ==
    \E k \in 0..(Len(b) - Len(a)) :
        \A j \in 1..Len(a) : b[k + j] = a[j]

IsSpace(c) == c = " "

\* str.strip()
Strip(s) ==
    IF \A k \in 1..Len(s) : IsSpace(s[k])
    THEN << >>
    ELSE LET lo == CHOOSE k \in 1..Len(s) :
                       /\ ~IsSpace(s[k])
                       /\ \A j \in 1..(k - 1) : IsSpace(s[j])
             hi == CHOOSE k \in 1..Len(s) :
                       /\ ~IsSpace(s[k])
                       /\ \A j \in (k + 1)..Len(s) : IsSpace(s[j])
         IN  SubSeq(s, lo, hi)

(***************************************************************************)
(* Arithmetic                                                              *)
(***************************************************************************)
Abs(x) == IF x < 0 THEN -x ELSE x
Min2(a, b) == IF a < b THEN a ELSE b
Max2(a, b) == IF a > b THEN a ELSE b

\* round(num/den) to the nearest integer, ties to even; num >= 0, den > 0
RoundHalfEven(num, den) ==
    LET q == num \div den
        r == num % den
    IN  IF 2 * r < den THEN q
        ELSE IF 2 * r > den THEN q + 1
        ELSE IF q % 2 = 0 THEN q ELSE q + 1

(***************************************************************************)
(* The store: places_live documents (models/place.py)                      *)
(***************************************************************************)
Str_heritage == << "h","e","r","i","t","a","g","e" >>
Str_Heritage == << "H","e","r","i","t","a","g","e" >>
Str_beach    == << "b","e","a","c","h" >>
Str_nature   == << "n","a","t","u","r","e" >>
Str_Nature   == << "N","a","t","u","r","e" >>
Str_trekking == << "t","r","e","k","k","i","n","g" >>

RoadAccessLevel ==
    { "paved", "unpaved", "4wd_only", "foot_only", "boat_only", "off_road" }

\* weather_comfort_history dicts used by the catalogue
HistoryFlat(v) == [m \in {"May", "Jun", "Dec", "Jan"} |-> v]
HistoryAlternating(a, b) ==
    [m \in {"May", "Jun", "Dec", "Jan"} |-> IF m \in {"May", "Dec"} THEN a ELSE b]
HistoryEmpty == [m \in {} |-> 0]

\* The eight kinds of Place document the catalogue repeats.
PlaceKind(k) ==
    CASE k = 1 -> [road_access |-> "paved", watrs_tags |-> << Str_heritage >>,
                   hidden_percentile |-> 9000,
                   weather_comfort_history |-> HistoryFlat(9000)]
      [] k = 2 -> [road_access |-> "paved", watrs_tags |-> << Str_beach >>,
                   hidden_percentile |-> 1000,
                   weather_comfort_history |-> HistoryFlat(9000)]
      [] k = 3 -> [road_access |-> "boat_only", watrs_tags |-> << Str_heritage >>,
                   hidden_percentile |-> 10000,
                   weather_comfort_history |-> HistoryFlat(10000)]
      [] k = 4 -> [road_access |-> "foot_only",
                   watrs_tags |-> << Str_Nature, Str_beach >>,
                   hidden_percentile |-> 5000,
                   weather_comfort_history |-> HistoryAlternating(6000, 3000)]
      [] k = 5 -> [road_access |-> "unpaved", watrs_tags |-> << >>,
                   hidden_percentile |-> 5000,
                   weather_comfort_history |-> HistoryAlternating(3000, 8000)]
      [] k = 6 -> [road_access |-> "paved", watrs_tags |-> << Str_beach >>,
                   hidden_percentile |-> 4000,
                   weather_comfort_history |-> HistoryEmpty]
      [] k = 7 -> [road_access |-> "off_road", watrs_tags |-> << Str_beach >>,
                   hidden_percentile |-> 1000,
                   weather_comfort_history |-> HistoryFlat(9000)]
      [] OTHER -> [road_access |-> "4wd_only", watrs_tags |-> << Str_trekking >>,
                   hidden_percentile |-> 0,
                   weather_comfort_history |-> HistoryFlat(4000)]

PlaceIds == 1..MaxCand

\* Place(**doc): the validated document with id p
Place(p) == PlaceKind(((p - 1) % 8) + 1)

\* Places lie on a line; a query is issued from one of its two ends.
\* Distance of place p from query point q, in millimetres.
GeoDistance(q, p) ==
    IF q = "west" THEN p * 1000000 + 500000 + 7 * p
    ELSE (MaxCand + 1 - p) * 1000000 + 500000 + 7 * p

\* $geoNear: the documents within radius_km * 1000 metres, nearest first,
\* each annotated with dist_meters (here in millimetres).
RECURSIVE NearestFirst(_, _)
NearestFirst(q, ps) ==
    IF ps = {} THEN << >>
    ELSE LET p == CHOOSE x \in ps :
                     \A y \in ps : GeoDistance(q, x) <= GeoDistance(q, y)
         IN  << [place_id |-> p, dist_meters |-> GeoDistance(q, p)] >>
                 \o NearestFirst(q, ps \ {p})

GeoNear(q, radius_km) ==
    NearestFirst(q, { p \in PlaceIds : GeoDistance(q, p) <= radius_km * 1000 * 1000 })

\* the documents as read from the store st: each carries the trust score and
\* the verification flag the place has at that moment
ReadPlaces(docs, st) ==
    [k \in 1..Len(docs) |->
        [place_id |-> docs[k].place_id,
         dist_meters |-> docs[k].dist_meters,
         community_trust_score |-> st[docs[k].place_id].community_trust_score,
         verified_by_human |-> st[docs[k].place_id].verified_by_human]]

(***************************************************************************)
(* Inputs of a request                                                     *)
(***************************************************************************)
UserTagChoices ==
    { << >>, << Str_Heritage, Str_nature >> }
QueryPoints == { "west", "east" }
StartMonths == { 5 }

(***************************************************************************)
(* Scoring helpers (services/recommendation.py)                            *)
(***************************************************************************)
\* faulty variant: a month without an entry counts as comfort 0
_current_month_comfort_ZeroDefault(history, month) ==
    LET month_key == _MONTH_ABBR[month]
    IN  IF month_key \in DOMAIN history THEN history[month_key]
        ELSE 0

\* datetime.utcnow().month is `month`; history.get(month_key, 0.5)
_current_month_comfort(history, month) ==
    LET month_key == _MONTH_ABBR[month]
    IN  IF month_key \in DOMAIN history THEN history[month_key]
        ELSE DEFAULT_COMFORT

TagSet(tags) == { Lower(tags[k]) : k \in 1..Len(tags) }

\* faulty variant: the tags are compared as written
_vibe_score_CaseSensitive(user_tags, place_tags) ==
    IF Len(user_tags) = 0 \/ Len(place_tags) = 0 THEN << 0, 1 >>
    ELSE LET s_user == { user_tags[k] : k \in 1..Len(user_tags) }
             s_place == { place_tags[k] : k \in 1..Len(place_tags) }
         IN  << Cardinality(s_user \cap s_place), Cardinality(s_user \cup s_place) >>

\* Jaccard similarity, as the fraction << numerator, denominator >>
_vibe_score(user_tags, place_tags) ==
    IF Len(user_tags) = 0 \/ Len(place_tags) = 0 THEN << 0, 1 >>
    ELSE LET s_user == TagSet(user_tags)
             s_place == TagSet(place_tags)
             intersection == s_user \cap s_place
             union == s_user \cup s_place
         IN  IF union # {} THEN << Cardinality(intersection), Cardinality(union) >>
             ELSE << 0, 1 >>

\* _vibe_score for every request and place of the model, evaluated once
VibeTable ==
    [u \in UserTagChoices |->
        [p \in PlaceIds |-> _vibe_score(u, Place(p).watrs_tags)]]

\* round(W_VIBE * vibe + W_WEATHER * weather + W_HIDDEN * hidden, 4)
CompositeScore(vibe, weather, hidden) ==
    RoundHalfEven(W_VIBE * vibe[1] * ONE
                      + (W_WEATHER * weather + W_HIDDEN * hidden) * vibe[2],
                  vibe[2] * ONE)

\* round(dist_m, 2): millimetres to centimetres
RoundDist(dist_mm) == RoundHalfEven(dist_mm, 10)

(***************************************************************************)
(* The weather provider                                                    *)
(***************************************************************************)
Str_Sunny == << "S","u","n","n","y" >>
Str_Clear == << "C","l","e","a","r" >>
Str_LightRain == << "L","i","g","h","t"," ","R","a","i","n" >>

_ADVERSE_CONDITIONS ==
    { << "r","a","i","n" >>,
      << "h","e","a","v","y"," ","r","a","i","n" >>,
      << "t","h","u","n","d","e","r","s","t","o","r","m" >>,
      << "d","r","i","z","z","l","e" >>,
      << "t","o","r","r","e","n","t","i","a","l"," ","r","a","i","n" >> }

\* What one GET to the provider can end in: an error of the transport or of
\* the status line, a body that is no JSON, or a JSON body.
FetchErrors == { "timeout", "connect_error", "http_error", "invalid_json" }
JsonBodies == { "clear_22", "rain_22", "clear_40", "no_current",
                "temp_string", "array_body", "text_null", "null_body" }
ProviderReplies == FetchErrors \cup JsonBodies

\* The JSON value of a body: the type of each node on the path the code
\* reads ("missing" for an absent key), the temperature in tenths of a
\* degree and the condition text.
JsonValue(top, current, temp_c, temp, condition, text, text_value) ==
    [top |-> top, current |-> current, temp_c |-> temp_c, temp |-> temp,
     condition |-> condition, text |-> text, text_value |-> text_value]

WeatherBody(body) ==
    CASE body = "clear_22" ->
             JsonValue("object", "object", "number", 220, "object", "string", Str_Sunny)
      [] body = "rain_22" ->
             JsonValue("object", "object", "number", 220, "object", "string", Str_LightRain)
      [] body = "clear_40" ->
             JsonValue("object", "object", "number", 400, "object", "string", Str_Clear)
      [] body = "no_current" ->
             JsonValue("object", "missing", "missing", 0, "missing", "missing", << >>)
      [] body = "temp_string" ->
             JsonValue("object", "object", "string", 0, "object", "string", Str_Sunny)
      [] body = "array_body" ->
             JsonValue("array", "missing", "missing", 0, "missing", "missing", << >>)
      [] body = "text_null" ->
             JsonValue("object", "object", "number", 220, "object", "null", << >>)
      [] OTHER ->
             JsonValue("null", "missing", "missing", 0, "missing", "missing", << >>)

\* d[key] on a JSON node of type t whose key has type child
Subscript(t, child) ==
    IF t # "object" THEN "TypeError"
    ELSE IF child = "missing" THEN "KeyError"
    ELSE "none"

\* The first exception the body of the try block raises, "none" if it
\* runs to its return.
ComfortRaises(w) ==
    IF Subscript(w.top, w.current) # "none" THEN Subscript(w.top, w.current)
    ELSE IF Subscript(w.current, w.temp_c) # "none" THEN Subscript(w.current, w.temp_c)
    ELSE IF w.temp_c # "number" THEN "TypeError"
    ELSE IF Subscript(w.current, w.condition) # "none"
         THEN Subscript(w.current, w.condition)
    ELSE IF Subscript(w.condition, w.text) # "none" THEN Subscript(w.condition, w.text)
    ELSE IF w.text # "string" THEN "AttributeError"
    ELSE "none"

\* faulty variant: an adverse condition does not halve the score
ComfortFormula_NoHalving(temp, text_value) ==
    RoundHalfEven(Max2(0, Min2(280, 280 - Abs(temp - 220))) * ONE, 280)

\* max(0.0, min(1.0, 1.0 - abs(temp - 22.0) / 28.0)), halved on an adverse
\* condition, rounded to 4 decimals
ComfortFormula(temp, text_value) ==
    LET num == Max2(0, Min2(280, 280 - Abs(temp - 220)))
        condition_text == Lower(text_value)
        adverse == \E adv \in _ADVERSE_CONDITIONS : IsSubstring(adv, condition_text)
    IN  IF adverse THEN RoundHalfEven(num * ONE, 2 * 280)
        ELSE RoundHalfEven(num * ONE, 280)

CaughtByComfort == { "KeyError", "TypeError" }

\* [raised |-> the exception that leaves the function or "none", value |-> comfort]
_comfort_from_weather(weather_data) ==
    LET w == weather_data
        exc == ComfortRaises(w)
    IN  IF exc = "none" THEN [raised |-> "none", value |-> ComfortFormula(w.temp, w.text_value)]
        ELSE IF exc \in CaughtByComfort THEN [raised |-> "none", value |-> DEFAULT_COMFORT]
        ELSE [raised |-> exc, value |-> 0]

\* How WEATHERAPI_API_KEY is configured: not set (the default "" applies),
\* set to "", set to blanks, or set to a key.
Str_Key == << "k","3","y" >>
ApiKeys == { "absent", "empty", "blank", "key" }
ApiKeyValue(k) ==
    CASE k = "absent" -> << >>
      [] k = "empty" -> << >>
      [] k = "blank" -> << " ", " " >>
      [] OTHER -> Str_Key

\* faulty variant: only the empty key trips the breaker
KeyMissing_NoStrip(k) == Len(ApiKeyValue(k)) = 0

\* not api_key or not api_key.strip()
KeyMissing(k) ==
    \/ Len(ApiKeyValue(k)) = 0
    \/ Len(Strip(ApiKeyValue(k))) = 0

\* [data |-> the JSON body returned or "None", network_calls |-> GETs issued]
_fetch_live_weather(api_key, reply) ==
    IF KeyMissing(api_key) THEN [data |-> "None", network_calls |-> 0]
    ELSE IF reply \in FetchErrors THEN [data |-> "None", network_calls |-> 1]
    ELSE IF WeatherBody(reply).top = "null" THEN [data |-> "None", network_calls |-> 1]
    ELSE [data |-> reply, network_calls |-> 1]

\* history: why a call of _fetch_live_weather ended as it did
FetchCause(key, reply) ==
    IF KeyMissing(key) THEN "no_key"
    ELSE IF reply \in FetchErrors THEN "error"
    ELSE IF WeatherBody(reply).top = "null" THEN "null_json"
    ELSE IF ComfortRaises(WeatherBody(reply)) = "none" THEN "reading"
    ELSE "malformed"

\* the three functions above for every key and reply of the model,
\* evaluated once
FetchTable ==
    [k \in ApiKeys |-> [r \in ProviderReplies |-> _fetch_live_weather(k, r)]]
ComfortTable ==
    [b \in JsonBodies |-> _comfort_from_weather(WeatherBody(b))]
CauseTable ==
    [k \in ApiKeys |-> [r \in ProviderReplies |-> FetchCause(k, r)]]

(***************************************************************************)
(* list.sort(key=score, reverse=True): stable, descending                  *)
(***************************************************************************)
\* faulty variant: x goes before the entries whose score equals its own
InsertDesc_Unstable(sorted, x) ==
    LET n == Cardinality({ k \in 1..Len(sorted) : sorted[k].score > x.score })
    IN  SubSeq(sorted, 1, n) \o << x >> \o SubSeq(sorted, n + 1, Len(sorted))

\* x goes after every entry whose score is at least its own
InsertDesc(sorted, x) ==
    LET n == Cardinality({ k \in 1..Len(sorted) : sorted[k].score >= x.score })
    IN  SubSeq(sorted, 1, n) \o << x >> \o SubSeq(sorted, n + 1, Len(sorted))

RECURSIVE SortDescFrom(_, _, _)
SortDescFrom(done, lst, k) ==
    IF k > Len(lst) THEN done
    ELSE SortDescFrom(InsertDesc(done, lst[k]), lst, k + 1)

SortDesc(lst) == SortDescFrom(<< >>, lst, 1)

\* faulty variant: nothing is dropped
DropZeroed_KeepAll(lst) == lst

\* [s for s in scored if s["score"] > 0.0]
DropZeroed(lst) == SelectSeq(lst, LAMBDA s : s.score > 0)

(***************************************************************************)
(* State                                                                   *)
(***************************************************************************)
VARIABLES
    pc,                 \* where the request is: phase1, phase2, phase3, done, failed
    request,            \* query_point, radius_km, user_tags
    api_key,            \* settings.WEATHERAPI_API_KEY
    month,              \* datetime.utcnow().month
    rolled,             \* the month has changed since the request began
    candidates_raw,     \* documents returned by $geoNear
    total_candidates,
    scored,             \* the working list of entries
    idx,                \* loop position (1-based) in phase 2 and phase 3
    warnings,
    response,           \* the envelope returned, << >> until then
    error,              \* the exception that left get_recommendations, "none" if none
    ranking,            \* history: scored as phase 2 left it
    fetch_log,          \* history: one record per _fetch_live_weather call
    last_fetch,         \* history: how the latest call ended (FetchCause)
    network_calls,      \* history: GETs issued to the provider
    call,               \* a helper function called on its own: arguments and result
    store,              \* places_live: the fields of each place that feedback updates
    feedback,           \* the calls of submit_feedback
    twin                \* a second run of the same request over the store as it first was

vars == << pc, request, api_key, month, rolled, candidates_raw, total_candidates,
           scored, idx, warnings, response, error, ranking, fetch_log, last_fetch,
           network_calls, call, store, feedback, twin >>

\* what a request of get_recommendations leaves alone
outside == << call, store, feedback, twin >>

NoCall == [fn |-> "none"]

\* metrics.community_trust_score (in tenths) and
\* safety_metadata.verified_by_human of every place; place 2 has been flagged
InitialStore ==
    [p \in PlaceIds |-> [community_trust_score |-> 0,
                         verified_by_human |-> (p # 2)]]

NoTwin == [candidates_raw |-> << >>, scored |-> << >>, warnings |-> << >>,
           response |-> << >>]

NoFeedback ==
    [i \in 1..MaxFeedback |->
        [pc |-> "idle", place_id |-> "none", feedback_type |-> "none", status |-> 0]]

Init ==
    /\ pc = "phase1"
    /\ request \in [query_point : QueryPoints,
                    radius_km : 1..(MaxCand + 1),
                    user_tags : UserTagChoices]
    /\ api_key \in ApiKeys
    /\ month \in StartMonths
    /\ rolled = FALSE
    /\ candidates_raw = << >>
    /\ total_candidates = 0
    /\ scored = << >>
    /\ idx = 1
    /\ warnings = << >>
    /\ response = << >>
    /\ error = "none"
    /\ ranking = << >>
    /\ fetch_log = << >>
    /\ last_fetch = "none"
    /\ network_calls = 0
    /\ call = NoCall
    /\ store = InitialStore
    /\ feedback = NoFeedback
    /\ twin = NoTwin

\* no request of get_recommendations is being served
NoRequest ==
    /\ pc = "idle"
    /\ request = [query_point |-> "west", radius_km |-> 1, user_tags |-> << >>]
    /\ api_key = "absent"
    /\ month \in StartMonths
    /\ rolled = FALSE
    /\ candidates_raw = << >>
    /\ total_candidates = 0
    /\ scored = << >>
    /\ idx = 1
    /\ warnings = << >>
    /\ response = << >>
    /\ error = "none"
    /\ ranking = << >>
    /\ fetch_log = << >>
    /\ last_fetch = "none"
    /\ network_calls = 0

request_vars == << pc, request, api_key, month, rolled, candidates_raw, total_candidates,
                   scored, idx, warnings, response, error, ranking, fetch_log,
                   last_fetch, network_calls >>

(***************************************************************************)
(* Phase 1: geospatial filter                                              *)
(***************************************************************************)
Phase1Fetch ==
    /\ pc = "phase1"
    /\ candidates_raw' = ReadPlaces(GeoNear(request.query_point, request.radius_km), store)
    /\ total_candidates' = Len(candidates_raw')
    /\ pc' = "phase2"
    /\ idx' = 1
    /\ UNCHANGED << request, api_key, month, rolled, scored, warnings, response,
                    error, ranking, fetch_log, last_fetch, network_calls >>

\* faulty variant: the store error is swallowed and the request goes on
\* with no candidates
Phase1Fail_Swallowed ==
    /\ pc = "phase1"
    /\ pc' = "phase2"
    /\ error' = "StoreError"
    /\ UNCHANGED << request, api_key, month, rolled, candidates_raw, total_candidates,
                    scored, idx, warnings, response, ranking, fetch_log, last_fetch, network_calls >>

\* collection.aggregate raises: nothing in get_recommendations catches it
Phase1Fail ==
    /\ pc = "phase1"
    /\ pc' = "failed"
    /\ error' = "StoreError"
    /\ UNCHANGED << request, api_key, month, rolled, candidates_raw, total_candidates,
                    scored, idx, warnings, response, ranking, fetch_log, last_fetch, network_calls >>

(***************************************************************************)
(* Phase 2: scoring engine, one document per step                          *)
(***************************************************************************)
\* faulty variant: the literal compared with is not the enum's value
RoadHardFailure_WrongLiteral(place) == place.road_access = "boat"

\* the two hard failures of a document
RoadHardFailure(place) == place.road_access = INACCESSIBLE_ROAD
\* faulty variant: the threshold is written 0.04
ComfortHardFailure_WrongThreshold(comfort) == comfort < 400

ComfortHardFailure(comfort) == comfort < MIN_COMFORT_SCORE

\* faulty variant: the trust score of the place is added to its score
ScoreEntry_TrustBonus(doc, user_tags, weather) ==
    [place |-> doc.place_id,
     community_trust_score |-> doc.community_trust_score,
     verified_by_human |-> doc.verified_by_human,
     score |-> CompositeScore(VibeTable[user_tags][doc.place_id], weather,
                              Place(doc.place_id).hidden_percentile)
                   + 1000 * doc.community_trust_score,
     dist_meters |-> RoundDist(doc.dist_meters),
     weather_fallback |-> FALSE,
     _weather_comfort |-> weather]

\* the entry appended for a document; "place" is the Place object: its id
\* and the two fields of it that feedback updates
ScoreEntry(doc, user_tags, weather) ==
    LET place == Place(doc.place_id)
        vibe == VibeTable[user_tags][doc.place_id]
        hidden == place.hidden_percentile
    IN  [place |-> doc.place_id,
         community_trust_score |-> doc.community_trust_score,
         verified_by_human |-> doc.verified_by_human,
         score |-> CompositeScore(vibe, weather, hidden),
         dist_meters |-> RoundDist(doc.dist_meters),
         weather_fallback |-> FALSE,
         _weather_comfort |-> weather]

\* one iteration of the phase-2 loop: the list after the document doc
Phase2Step(lst, doc, user_tags, now) ==
    LET place == Place(doc.place_id)
        weather == _current_month_comfort(place.weather_comfort_history, now)
    IN  IF RoadHardFailure(place) THEN lst
        ELSE IF ComfortHardFailure(weather) THEN lst
        ELSE Append(lst, ScoreEntry(doc, user_tags, weather))

Phase2Score ==
    /\ pc = "phase2"
    /\ idx <= Len(candidates_raw)
    /\ scored' = Phase2Step(scored, candidates_raw[idx], request.user_tags, month)
    /\ idx' = idx + 1
    /\ UNCHANGED << pc, request, api_key, month, rolled, candidates_raw,
                    total_candidates, warnings, response, error, ranking,
                    fetch_log, last_fetch, network_calls >>

Phase2Sort ==
    /\ pc = "phase2"
    /\ idx > Len(candidates_raw)
    /\ scored' = SortDesc(scored)
    /\ ranking' = scored'
    /\ pc' = "phase3"
    /\ idx' = 1
    /\ UNCHANGED << request, api_key, month, rolled, candidates_raw, total_candidates,
                    warnings, response, error, fetch_log, last_fetch, network_calls >>

(***************************************************************************)
(* Phase 3: live weather validation of the top entries, one per step       *)
(***************************************************************************)
\* faulty variant: every entry is validated
TopN_All(lst) == Len(lst)

\* faulty variant: one entry too many is validated
TopN_OffByOne(lst) == Min2(TOP_K + 1, Len(lst))

\* top_n = min(5, len(scored))
TopN(lst) == Min2(TOP_K, Len(lst))

\* if "Live weather unavailable" not in warnings: warnings.append(...)
\* (`in` on a list compares whole elements)
WarnUnavailable(w) ==
    IF ~(\E k \in 1..Len(w) : w[k] = WARNING_PROBE) THEN Append(w, WARNING_TEXT)
    ELSE w

\* faulty variant: the score is recalculated without the re-check
Rescore_NoRecheck(entry, comfort, user_tags) ==
    [entry EXCEPT !.score = CompositeScore(VibeTable[user_tags][entry.place], comfort,
                                           Place(entry.place).hidden_percentile),
                  !._weather_comfort = comfort]

\* the re-check of the hard failure and the recalculation of the score
Rescore(entry, comfort, user_tags) ==
    LET place == Place(entry.place)
        vibe == VibeTable[user_tags][entry.place]
        hidden == place.hidden_percentile
    IN  IF ComfortHardFailure(comfort) THEN [entry EXCEPT !.score = 0]
        ELSE [entry EXCEPT !.score = CompositeScore(vibe, comfort, hidden),
                           !._weather_comfort = comfort]

\* faulty variant: the fallback takes the neutral default, not the stored history
Fallback_DefaultComfort(entry, now) ==
    [comfort |-> DEFAULT_COMFORT,
     entry |-> [entry EXCEPT !.weather_fallback = TRUE]]

\* the fallback branch: history of the month it now is, flag set
Fallback(entry, now) ==
    [comfort |-> _current_month_comfort(Place(entry.place).weather_comfort_history, now),
     entry |-> [entry EXCEPT !.weather_fallback = TRUE]]

\* history: the call just made and the comfort the loop body derived from
\* it (-1 when _comfort_from_weather raised)
LogFetch(entry, position, fetched, comfort) ==
    [place |-> entry.place,
     position |-> position,
     returned_none |-> (fetched.data = "None"),
     comfort |-> comfort]

\* one iteration of the phase-3 loop, the provider answering with reply
Phase3ValidateWith(reply) ==
    /\ pc = "phase3"
    /\ idx <= TopN(scored)
    /\ LET entry == scored[idx]
           fetched == FetchTable[api_key][reply]
       IN  /\ network_calls' = network_calls + fetched.network_calls
           /\ last_fetch' = CauseTable[api_key][reply]
           /\ IF fetched.data # "None"
              THEN LET live == ComfortTable[fetched.data]
                   IN  IF live.raised # "none"
                       THEN /\ pc' = "failed"
                            /\ error' = live.raised
                            /\ fetch_log' = Append(fetch_log,
                                                   LogFetch(entry, idx, fetched, -1))
                            /\ UNCHANGED << scored, idx, warnings >>
                       ELSE /\ scored' = [scored EXCEPT ![idx] =
                                             Rescore(entry, live.value, request.user_tags)]
                            /\ fetch_log' = Append(fetch_log,
                                                   LogFetch(entry, idx, fetched, live.value))
                            /\ idx' = idx + 1
                            /\ UNCHANGED << pc, error, warnings >>
              ELSE LET fb == Fallback(entry, month)
                   IN  /\ warnings' = WarnUnavailable(warnings)
                       /\ scored' = [scored EXCEPT ![idx] =
                                        Rescore(fb.entry, fb.comfort, request.user_tags)]
                       /\ fetch_log' = Append(fetch_log,
                                              LogFetch(entry, idx, fetched, fb.comfort))
                       /\ idx' = idx + 1
                       /\ UNCHANGED << pc, error >>
    /\ UNCHANGED << request, api_key, month, rolled, candidates_raw, total_candidates,
                    response, ranking >>

Phase3Validate == \E reply \in ProviderReplies : Phase3ValidateWith(reply)

(***************************************************************************)
(* Final pass and response                                                 *)
(***************************************************************************)
\* ScoredPlace(place, score, dist_meters, weather_fallback) per entry
BuildResults(lst) ==
    [k \in 1..Len(lst) |->
        [place |-> lst[k].place,
         community_trust_score |-> lst[k].community_trust_score,
         verified_by_human |-> lst[k].verified_by_human,
         score |-> lst[k].score,
         dist_meters |-> lst[k].dist_meters,
         weather_fallback |-> lst[k].weather_fallback]]

\* faulty variant: the list is filtered but not sorted again
FinalPass_NoResort ==
    /\ pc = "phase3"
    /\ idx > TopN(scored)
    /\ scored' = DropZeroed(scored)
    /\ response' = << [results |-> BuildResults(scored'),
                       total_candidates |-> total_candidates,
                       warnings |-> warnings] >>
    /\ pc' = "done"
    /\ UNCHANGED << request, api_key, month, rolled, candidates_raw, total_candidates,
                    idx, warnings, error, ranking, fetch_log, last_fetch,
                    network_calls >>

\* faulty variant: total_candidates counts what is left after filtering
FinalPass_PostFilterCount ==
    /\ pc = "phase3"
    /\ idx > TopN(scored)
    /\ scored' = SortDesc(DropZeroed(scored))
    /\ response' = << [results |-> BuildResults(scored'),
                       total_candidates |-> Len(scored'),
                       warnings |-> warnings] >>
    /\ pc' = "done"
    /\ UNCHANGED << request, api_key, month, rolled, candidates_raw, total_candidates,
                    idx, warnings, error, ranking, fetch_log, last_fetch,
                    network_calls >>

FinalPass ==
    /\ pc = "phase3"
    /\ idx > TopN(scored)
    /\ scored' = SortDesc(DropZeroed(scored))
    /\ response' = << [results |-> BuildResults(scored'),
                       total_candidates |-> total_candidates,
                       warnings |-> warnings] >>
    /\ pc' = "done"
    /\ UNCHANGED << request, api_key, month, rolled, candidates_raw, total_candidates,
                    idx, warnings, error, ranking, fetch_log, last_fetch,
                    network_calls >>

(***************************************************************************)
(* The clock: the calendar month may change while a request is served      *)
(***************************************************************************)
MonthRollover ==
    /\ ~rolled
    /\ pc \in { "phase1", "phase2", "phase3" }
    /\ month' = (month % 12) + 1
    /\ rolled' = TRUE
    /\ UNCHANGED << pc, request, api_key, candidates_raw, total_candidates, scored,
                    idx, warnings, response, error, ranking, fetch_log, last_fetch, network_calls >>

Next ==
    \/ Phase1Fetch /\ UNCHANGED outside
    \/ Phase1Fail /\ UNCHANGED outside
    \/ Phase2Score /\ UNCHANGED outside
    \/ Phase2Sort /\ UNCHANGED outside
    \/ Phase3Validate /\ UNCHANGED outside
    \/ FinalPass /\ UNCHANGED outside
    \/ MonthRollover /\ UNCHANGED outside

Spec == Init /\ [][Next]_vars

(***************************************************************************)
(* _vibe_score called on its own, on every pair of tag lists of up to      *)
(* MaxTags tags                                                            *)
(***************************************************************************)
TagUniverse == { Str_nature, Str_Nature, Str_trekking, Str_beach }
TagLists == UNION { [1..n -> TagUniverse] : n \in 0..MaxTags }

VibeInit ==
    /\ NoRequest
    /\ store = InitialStore
    /\ feedback = NoFeedback
    /\ twin = NoTwin
    /\ call \in [fn : { "_vibe_score" }, user_tags : TagLists, place_tags : TagLists,
                  returned : { FALSE }, result : { << >> }]

VibeReturn ==
    /\ call.fn = "_vibe_score"
    /\ ~call.returned
    /\ call' = [call EXCEPT !.returned = TRUE,
                            !.result = _vibe_score(call.user_tags, call.place_tags)]
    /\ UNCHANGED << request_vars, store, feedback, twin >>

VibeNext == VibeReturn

VibeSpec == VibeInit /\ [][VibeNext]_vars

(***************************************************************************)
(* _comfort_from_weather called on its own, on well-formed readings        *)
(***************************************************************************)
Str_PatchyDrizzle ==
    << "P","a","t","c","h","y"," ","l","i","g","h","t"," ","D","R","I","Z","Z","L","E" >>
ConditionTexts == { Str_Sunny, Str_Clear, Str_LightRain, Str_PatchyDrizzle }
\* temp_c in tenths of a degree
Temperatures == (0 - 10 * MaxTemp)..(10 * MaxTemp)

\* {"current": {"temp_c": temp, "condition": {"text": text}}}
Reading(temp, text) ==
    JsonValue("object", "object", "number", temp, "object", "string", text)

ComfortInit ==
    /\ NoRequest
    /\ store = InitialStore
    /\ feedback = NoFeedback
    /\ twin = NoTwin
    /\ call \in [fn : { "_comfort_from_weather" }, temp_c : Temperatures,
                  text : ConditionTexts, returned : { FALSE }, result : { 0 }]

ComfortReturn ==
    /\ call.fn = "_comfort_from_weather"
    /\ ~call.returned
    /\ LET out == _comfort_from_weather(Reading(call.temp_c, call.text))
       IN  /\ out.raised = "none"
           /\ call' = [call EXCEPT !.returned = TRUE, !.result = out.value]
    /\ UNCHANGED << request_vars, store, feedback, twin >>

ComfortNext == ComfortReturn

ComfortSpec == ComfortInit /\ [][ComfortNext]_vars

(***************************************************************************)
(* The feedback endpoint (api/v1/feedback.py): concurrent calls of         *)
(* submit_feedback, each one update_one on the store                       *)
(***************************************************************************)
FeedbackType == { "like", "dislike", "safety_alert" }

\* the place_id path parameter: the ids of places 1 and 2, a well-formed id
\* of no place, and a string that is no ObjectId
PlaceIdParams == { "id_1", "id_2", "id_absent", "malformed" }
ObjectIdIsValid(place_id) == place_id # "malformed"
\* ObjectId(place_id) as the key of the store, 0 for the id of no place
ObjectIdOf(place_id) ==
    CASE place_id = "id_1" -> 1
      [] place_id = "id_2" -> 2
      [] OTHER -> 0

\* faulty variant: a like or dislike overwrites the score with its step
_UPDATE_MAP_SetsScore(feedback_type) ==
    CASE feedback_type = "like" ->
             [op |-> "$set", field |-> "metrics.community_trust_score", value |-> 1]
      [] feedback_type = "dislike" ->
             [op |-> "$set", field |-> "metrics.community_trust_score", value |-> 0 - 1]
      [] OTHER ->
             [op |-> "$set", field |-> "safety_metadata.verified_by_human", value |-> FALSE]

\* the update document of each feedback type; 0.1 is one tenth
_UPDATE_MAP(feedback_type) ==
    CASE feedback_type = "like" ->
             [op |-> "$inc", field |-> "metrics.community_trust_score", value |-> 1]
      [] feedback_type = "dislike" ->
             [op |-> "$inc", field |-> "metrics.community_trust_score", value |-> 0 - 1]
      [] OTHER ->
             [op |-> "$set", field |-> "safety_metadata.verified_by_human", value |-> FALSE]

\* one document after an update document has been applied to it
UpdatedDocument(doc, update) ==
    IF update.field = "metrics.community_trust_score"
    THEN [doc EXCEPT !.community_trust_score =
                        IF update.op = "$inc" THEN @ + update.value ELSE update.value]
    ELSE [doc EXCEPT !.verified_by_human = update.value]

\* collection.update_one({"_id": oid}, update): the store afterwards and
\* matched_count; the server applies it to the one document as a whole
update_one(st, oid, update) ==
    IF oid \in DOMAIN st
    THEN [store |-> [st EXCEPT ![oid] = UpdatedDocument(st[oid], update)],
          matched_count |-> 1]
    ELSE [store |-> st, matched_count |-> 0]

\* the call arrives and the id is validated
SubmitFeedback(i) ==
    /\ feedback[i].pc = "idle"
    /\ \E place_id \in PlaceIdParams, feedback_type \in FeedbackType :
         feedback' = [feedback EXCEPT ![i] =
            IF ~ObjectIdIsValid(place_id)
            THEN [pc |-> "returned", place_id |-> place_id,
                  feedback_type |-> feedback_type, status |-> 400]
            ELSE [pc |-> "update_one", place_id |-> place_id,
                  feedback_type |-> feedback_type, status |-> 0]]
    /\ UNCHANGED << request_vars, call, store, twin >>

\* await collection.update_one(...), then 404 or the acknowledgement
FeedbackUpdate(i) ==
    /\ feedback[i].pc = "update_one"
    /\ LET result == update_one(store, ObjectIdOf(feedback[i].place_id),
                                _UPDATE_MAP(feedback[i].feedback_type))
       IN  /\ store' = result.store
           /\ feedback' = [feedback EXCEPT ![i].pc = "returned",
                                           ![i].status = IF result.matched_count = 0
                                                         THEN 404 ELSE 200]
    /\ UNCHANGED << request_vars, call, twin >>

\* update_one raises (the store cannot be reached): nothing is written
FeedbackStoreError(i) ==
    /\ feedback[i].pc = "update_one"
    /\ feedback' = [feedback EXCEPT ![i].pc = "returned", ![i].status = 500]
    /\ UNCHANGED << request_vars, call, store, twin >>

FeedbackInit ==
    /\ NoRequest
    /\ call = NoCall
    /\ store = InitialStore
    /\ feedback = NoFeedback
    /\ twin = NoTwin

FeedbackNext ==
    \E i \in 1..MaxFeedback :
        \/ SubmitFeedback(i)
        \/ FeedbackUpdate(i)
        \/ FeedbackStoreError(i)

FeedbackSpec == FeedbackInit /\ [][FeedbackNext]_vars

(***************************************************************************)
(* Two runs of one request: the request itself reads the store while the   *)
(* feedback path writes to it; its twin reads the store as it first was    *)
(* and takes every step with it, with the same outcome of every fetch; the *)
(* month is the same throughout.                                           *)
(***************************************************************************)
\* how far the feedback path has moved the store from its first contents
StoreDrift(st) ==
    LET RECURSIVE Sum(_)
        Sum(ps) == IF ps = {} THEN 0
                   ELSE LET p == CHOOSE x \in ps : TRUE
                        IN  Abs(st[p].community_trust_score
                                  - InitialStore[p].community_trust_score)
                              + (IF st[p].verified_by_human = InitialStore[p].verified_by_human
                                 THEN 0 ELSE 1)
                              + Sum(ps \ {p})
    IN  Sum(DOMAIN st)

\* one update_one of the feedback path, applied at any moment of the request
FeedbackWrites ==
    /\ pc \in { "phase1", "phase2", "phase3" }
    /\ \E place_id \in PlaceIdParams, feedback_type \in FeedbackType :
         /\ ObjectIdIsValid(place_id)
         /\ store' = update_one(store, ObjectIdOf(place_id),
                                _UPDATE_MAP(feedback_type)).store
    /\ StoreDrift(store') <= MaxFeedback
    /\ UNCHANGED << request_vars, call, feedback, twin >>

TwinInit ==
    /\ pc = "phase1"
    /\ request = [query_point |-> "west", radius_km |-> 5,
                  user_tags |-> << Str_Heritage, Str_nature >>]
    /\ api_key = "key"
    /\ month \in StartMonths
    /\ rolled = FALSE
    /\ candidates_raw = << >>
    /\ total_candidates = 0
    /\ scored = << >>
    /\ idx = 1
    /\ warnings = << >>
    /\ response = << >>
    /\ error = "none"
    /\ ranking = << >>
    /\ fetch_log = << >>
    /\ last_fetch = "none"
    /\ network_calls = 0
    /\ call = NoCall
    /\ store = InitialStore
    /\ feedback = NoFeedback
    /\ twin = NoTwin

TwinPhase1Fetch ==
    /\ Phase1Fetch
    /\ twin' = [twin EXCEPT !.candidates_raw =
                    ReadPlaces(GeoNear(request.query_point, request.radius_km),
                               InitialStore)]
    /\ UNCHANGED << call, store, feedback >>

TwinPhase2Score ==
    /\ Phase2Score
    /\ twin' = [twin EXCEPT !.scored =
                    Phase2Step(twin.scored, twin.candidates_raw[idx],
                               request.user_tags, month)]
    /\ UNCHANGED << call, store, feedback >>

TwinPhase2Sort ==
    /\ Phase2Sort
    /\ twin' = [twin EXCEPT !.scored = SortDesc(twin.scored)]
    /\ UNCHANGED << call, store, feedback >>

\* what the iteration that validates scored[idx] makes of the twin's entry
TwinValidated(entry, reply) ==
    LET fetched == FetchTable[api_key][reply]
    IN  IF fetched.data # "None"
        THEN LET live == ComfortTable[fetched.data]
             IN  IF live.raised # "none" THEN entry
                 ELSE Rescore(entry, live.value, request.user_tags)
        ELSE LET fb == Fallback(entry, month)
             IN  Rescore(fb.entry, fb.comfort, request.user_tags)

\* the outcomes of a fetch the two runs are taken through: an error, a
\* reading that passes, one that zeroes the entry, a malformed body that is
\* caught and one that is not
TwinReplies == { "timeout", "clear_22", "clear_40", "no_current", "text_null" }

TwinPhase3Validate ==
    /\ \E reply \in TwinReplies :
         /\ Phase3ValidateWith(reply)
         /\ twin' = [twin EXCEPT
                !.scored = [twin.scored EXCEPT ![idx] = TwinValidated(twin.scored[idx], reply)],
                !.warnings = IF FetchTable[api_key][reply].data = "None"
                             THEN WarnUnavailable(twin.warnings) ELSE twin.warnings]
    /\ UNCHANGED << call, store, feedback >>

TwinFinalPass ==
    /\ FinalPass
    /\ LET final == SortDesc(DropZeroed(twin.scored))
       IN  twin' = [twin EXCEPT
                !.scored = final,
                !.response = << [results |-> BuildResults(final),
                                 total_candidates |-> Len(twin.candidates_raw),
                                 warnings |-> twin.warnings] >>]
    /\ UNCHANGED << call, store, feedback >>

TwinNext ==
    \/ TwinPhase1Fetch
    \/ Phase1Fail /\ UNCHANGED outside
    \/ TwinPhase2Score
    \/ TwinPhase2Sort
    \/ TwinPhase3Validate
    \/ TwinFinalPass
    \/ FeedbackWrites

TwinSpec == TwinInit /\ [][TwinNext]_vars

(***************************************************************************)
(* Properties                                                              *)
(***************************************************************************)
Done == pc = "done"
Results == response[1].results
ResultPlaces == { Results[k].place : k \in 1..Len(Results) }
RankedPlaces == { ranking[k].place : k \in 1..Len(ranking) }
RawPlaces == { candidates_raw[k].place_id : k \in 1..Len(candidates_raw) }
RankPos(p) == CHOOSE k \in 1..Len(ranking) : ranking[k].place = p
ResultPos(p) == CHOOSE k \in 1..Len(Results) : Results[k].place = p
FetchedPlaces == { fetch_log[k].place : k \in 1..Len(fetch_log) }
LogOf(p) == fetch_log[CHOOSE k \in 1..Len(fetch_log) : fetch_log[k].place = p]

\* C1: in every response, results is sorted by score descending: no entry
\* has a smaller score than the entry after it.
C1_ResultsSortedDescending ==
    Done => \A k \in 1..(Len(Results) - 1) : Results[k].score >= Results[k + 1].score

\* a response of three or more entries in which the final sort moved an
\* entry that phase 2 had ranked lower above one it had ranked higher
C1_Witness ==
    /\ Done
    /\ Len(Results) >= 3
    /\ \E a, b \in ResultPlaces :
         /\ RankPos(a) < RankPos(b)
         /\ ResultPos(a) > ResultPos(b)
         /\ Results[ResultPos(a)].score < Results[ResultPos(b)].score

\* C2: a response carries at most one live-weather-unavailable warning,
\* however many of the top candidates fell back.
C2_AtMostOneWarning ==
    Done => Cardinality({ k \in 1..Len(response[1].warnings) :
                            response[1].warnings[k] = WARNING_TEXT }) <= 1

\* C3: once the store fetch has succeeded, nothing that happens while a
\* candidate is validated makes the request fail.
C3_ValidationNeverAborts ==
    pc = "failed" => error = "StoreError"

\* C4: no place whose road_access is boat_only is in results.
C4_BoatOnlyNeverInResults ==
    Done => \A p \in ResultPlaces : Place(p).road_access # "boat_only"

\* a response with results, for a query whose store result held a boat_only
\* place that outscores every result
C4_Witness ==
    /\ Done
    /\ Len(Results) >= 1
    /\ \E p \in RawPlaces :
         /\ Place(p).road_access = "boat_only"
         /\ \A k \in 1..Len(Results) :
              CompositeScore(VibeTable[request.user_tags][p],
                             _current_month_comfort(Place(p).weather_comfort_history, 5),
                             Place(p).hidden_percentile) > Results[k].score

\* the comfort a ranked candidate ends with: what phase 3 derived for it if
\* it was validated, what phase 2 looked up otherwise
FinalComfort(p) ==
    IF p \in FetchedPlaces THEN LogOf(p).comfort
    ELSE ranking[RankPos(p)]._weather_comfort

\* C5: no candidate whose final comfort is below 0.4 is in results.
C5_LowComfortNeverInResults ==
    Done => /\ ResultPlaces \subseteq RankedPlaces
            /\ \A p \in RankedPlaces : FinalComfort(p) < 4000 => p \notin ResultPlaces

\* a response from which one candidate is missing for a live comfort below
\* 0.4 and another for a fallback comfort below 0.4, while a validated and
\* an unvalidated candidate are in it
C5_Witness ==
    /\ Done
    /\ \E p, q \in RankedPlaces \ ResultPlaces :
         /\ ~LogOf(p).returned_none /\ LogOf(p).comfort < 4000
         /\ LogOf(q).returned_none /\ LogOf(q).comfort < 4000
    /\ ResultPlaces \cap FetchedPlaces # {}
    /\ ResultPlaces \ FetchedPlaces # {}

\* C6: fetches are attempted for positions 1..min(5, N) of the phase-2
\* ranking only, in order, once each; no more network calls than attempts.
C6_FetchesOnlyForTopK ==
    /\ Len(fetch_log) <= Min2(5, Len(ranking))
    /\ \A k \in 1..Len(fetch_log) :
         /\ fetch_log[k].position = k
         /\ fetch_log[k].place = ranking[k].place
    /\ network_calls <= Len(fetch_log)
    /\ Done => Len(fetch_log) = Min2(5, Len(ranking))

\* a response for more than five ranked candidates, some of the top five
\* zeroed after a failed and a successful fetch, and exactly five attempts
C6_Witness ==
    /\ Done
    /\ Len(ranking) > 5
    /\ Len(Results) < Len(ranking)
    /\ Len(fetch_log) = 5
    /\ \E j, k \in 1..5 : fetch_log[j].returned_none /\ ~fetch_log[k].returned_none
    /\ ranking[Len(ranking)].place \in ResultPlaces

\* C7: a candidate ranked below the top min(5, N) by phase 2 is in the
\* response with its phase-2 score, weather_fallback false and its
\* dist_meters.
C7_RestUntouched ==
    Done => \A k \in (Min2(5, Len(ranking)) + 1)..Len(ranking) :
                /\ ranking[k].place \in ResultPlaces
                /\ LET r == Results[ResultPos(ranking[k].place)]
                   IN  /\ r.score = ranking[k].score
                       /\ r.weather_fallback = FALSE
                       /\ r.dist_meters = ranking[k].dist_meters

\* a response for more than five ranked candidates in which a top-five
\* candidate changed its score, one fell back, and the sixth moved up
C7_Witness ==
    /\ Done
    /\ Len(ranking) > 5
    /\ \E k \in 1..5 :
         /\ ranking[k].place \in ResultPlaces
         /\ Results[ResultPos(ranking[k].place)].score # ranking[k].score
    /\ \E k \in 1..Len(Results) : Results[k].weather_fallback
    /\ ResultPos(ranking[6].place) < 6

\* C8: total_candidates is the number of documents the geospatial query
\* returned, whatever the filters and the validation removed.
C8_TotalIsRawCount ==
    Done => response[1].total_candidates =
                Cardinality({ p \in PlaceIds :
                    GeoDistance(request.query_point, p)
                        <= request.radius_km * 1000 * 1000 })

\* a response with no results and a nonzero total_candidates, after at
\* least one candidate was removed by phase 2 and one by validation
C8_Witness ==
    /\ Done
    /\ Len(Results) = 0
    /\ response[1].total_candidates > Len(ranking)
    /\ Len(ranking) > 0

\* C9: a fetch that fails (returns None) makes the candidate take the
\* historical comfort of the current month, sets weather_fallback, and the
\* score is recomputed with that comfort as the weather term (or zeroed when
\* it is below the minimum); no other candidate has weather_fallback set.
C9_FallbackOnFailure ==
    /\ [][ (pc = "phase3" /\ pc' = "phase3" /\ Len(fetch_log') = Len(fetch_log) + 1) =>
             LET rec == fetch_log'[Len(fetch_log')]
                 place == Place(scored[idx].place)
                 hist == _current_month_comfort(place.weather_comfort_history, month)
                 vibe == _vibe_score(request.user_tags, place.watrs_tags)
                 after == scored'[idx]
             IN  /\ rec.returned_none <=> last_fetch' \in { "error", "no_key", "null_json" }
                 /\ after.weather_fallback <=> rec.returned_none
                 /\ rec.returned_none =>
                      /\ rec.comfort = hist
                      /\ after.score =
                           IF hist < 4000 THEN 0
                           ELSE CompositeScore(vibe, hist, place.hidden_percentile)
         ]_vars
    /\ [](Done => \A p \in ResultPlaces :
                     Results[ResultPos(p)].weather_fallback
                         <=> (p \in FetchedPlaces /\ LogOf(p).returned_none))

\* a response in which a candidate with historical comfort 0.6 fell back
\* after a provider error and carries 0.4*vibe + 0.3*0.6 + 0.3*hidden, next
\* to a validated candidate that did not fall back
C9_Witness ==
    /\ Done
    /\ last_fetch = "error"
    /\ \E p \in ResultPlaces :
         /\ Results[ResultPos(p)].weather_fallback
         /\ LogOf(p).comfort = 6000
         /\ Results[ResultPos(p)].score =
                CompositeScore(_vibe_score(request.user_tags, Place(p).watrs_tags),
                               6000, Place(p).hidden_percentile)
    /\ \E p \in ResultPlaces \cap FetchedPlaces : ~Results[ResultPos(p)].weather_fallback

\* C10: with the credential absent, empty or blank no network call is made:
\* every fetch returns None at once and the candidate falls back.
C10_NoCallWithoutCredential ==
    api_key \in { "absent", "empty", "blank" } =>
        /\ network_calls = 0
        /\ last_fetch \in { "none", "no_key" }
        /\ \A k \in 1..Len(fetch_log) : fetch_log[k].returned_none
        /\ pc = "phase3" => \A k \in 1..Len(fetch_log) : scored[k].weather_fallback
        /\ Done => \A p \in ResultPlaces \cap FetchedPlaces :
                       Results[ResultPos(p)].weather_fallback

\* a response under a blank credential after five fetch attempts
C10_Witness ==
    /\ Done
    /\ api_key = "blank"
    /\ Len(fetch_log) = 5
    /\ network_calls = 0
    /\ \E p \in ResultPlaces : Results[ResultPos(p)].weather_fallback

\* the step of phase 3 that has just validated scored[idx]
ValidatedOne == pc = "phase3" /\ Len(fetch_log') = Len(fetch_log) + 1
LastLogged == fetch_log'[Len(fetch_log')]

\* C11: a reply that arrives but has a malformed or unexpected shape gives
\* the candidate comfort 0.5, leaves weather_fallback false and appends no
\* warning.
C11_MalformedIsNeutralReading ==
    [][ (ValidatedOne /\ last_fetch' = "malformed") =>
          /\ pc' = "phase3"
          /\ LastLogged.comfort = 5000
          /\ scored'[idx].weather_fallback = FALSE
          /\ warnings' = warnings
      ]_vars

\* C12: a failed store query fails the request: the error leaves
\* get_recommendations, there is no envelope, nothing was scored or fetched,
\* and nothing happens afterwards (no retry).
C12_StoreFailureIsFatal ==
    /\ [](error = "StoreError" =>
            /\ pc = "failed"
            /\ response = << >>
            /\ candidates_raw = << >> /\ scored = << >> /\ ranking = << >>
            /\ fetch_log = << >> /\ network_calls = 0)
    /\ [][pc = "failed" => UNCHANGED vars]_vars

\* a request that failed on the store query after the month had changed
C12_Witness ==
    /\ pc = "failed"
    /\ error = "StoreError"
    /\ rolled
    /\ request.radius_km > 1

\* C15: the final pass runs once every top-K candidate has been processed;
\* the response holds exactly the candidates whose score is not zero, with
\* that score, sorted descending as one list.
C15_FinalPassAfterAllValidated ==
    [][ (pc = "phase3" /\ pc' = "done") =>
          LET kept == { k \in 1..Len(scored) : scored[k].score # 0 }
              R == response'[1].results
          IN  /\ Len(fetch_log) = Min2(5, Len(scored))
              /\ Len(R) = Cardinality(kept)
              /\ \A k \in kept :
                   \E j \in 1..Len(R) : /\ R[j].place = scored[k].place
                                        /\ R[j].score = scored[k].score
              /\ \A j \in 1..(Len(R) - 1) : R[j].score >= R[j + 1].score
      ]_vars

\* a response from which a zeroed candidate is gone, in which a validated
\* candidate stands below a candidate that was never validated and had been
\* ranked below it, and another validated one stands above
C15_Witness ==
    /\ Done
    /\ Len(Results) < Len(ranking)
    /\ \E v \in ResultPlaces \cap FetchedPlaces :
         \E u \in ResultPlaces \ FetchedPlaces :
            /\ RankPos(v) < RankPos(u)
            /\ ResultPos(v) > ResultPos(u)
    /\ \E v \in ResultPlaces \cap FetchedPlaces :
         \A u \in ResultPlaces \ FetchedPlaces : ResultPos(v) < ResultPos(u)

RawPos(p) == CHOOSE k \in 1..Len(candidates_raw) : candidates_raw[k].place_id = p

\* C16: phase 2 leaves the list in descending score order with equal scores
\* in the order the store returned them; the final sort keeps equal scores
\* in the order they had before it.
C16_SortsAreStable ==
    /\ \A a, b \in 1..Len(ranking) :
         a < b => /\ ranking[a].score >= ranking[b].score
                  /\ ranking[a].score = ranking[b].score
                       => RawPos(ranking[a].place) < RawPos(ranking[b].place)
    /\ Done => \A a, b \in 1..Len(Results) :
                 (a < b /\ Results[a].score = Results[b].score)
                     => RankPos(Results[a].place) < RankPos(Results[b].place)

\* a response with two equal-scored entries which the store returned in the
\* order opposite to their ids, both rescored by validation and still equal
C16_Witness ==
    /\ Done
    /\ \E a, b \in ResultPlaces :
         /\ a > b
         /\ RawPos(a) < RawPos(b)
         /\ ranking[RankPos(a)].score = ranking[RankPos(b)].score
         /\ Results[ResultPos(a)].score = Results[ResultPos(b)].score
         /\ Results[ResultPos(a)].score # ranking[RankPos(a)].score
         /\ ResultPos(a) < ResultPos(b)

LacksMonth(p, m) == _MONTH_ABBR[m] \notin DOMAIN Place(p).weather_comfort_history

\* C18: a place with no history entry for the current month is scored with
\* comfort 0.5 in phase 2 and is given comfort 0.5 by the phase-3 fallback;
\* the historical minimum-comfort rule never excludes it.
C18_MissingMonthIsNeutral ==
    [][ /\ (pc = "phase2" /\ idx' = idx + 1
              /\ LacksMonth(candidates_raw[idx].place_id, month)
              /\ Place(candidates_raw[idx].place_id).road_access # "boat_only") =>
             /\ Len(scored') = Len(scored) + 1
             /\ scored'[Len(scored')].place = candidates_raw[idx].place_id
             /\ scored'[Len(scored')]._weather_comfort = 5000
        /\ (ValidatedOne /\ pc' = "phase3" /\ LastLogged.returned_none
              /\ LacksMonth(scored[idx].place, month)) =>
             /\ LastLogged.comfort = 5000
             /\ scored'[idx].score > 0
      ]_vars

\* a response that holds a place without any history entry, fallen back and
\* scored with 0.5 as its weather term
C18_Witness ==
    /\ Done
    /\ \E p \in ResultPlaces :
         /\ DOMAIN Place(p).weather_comfort_history = {}
         /\ Results[ResultPos(p)].weather_fallback
         /\ Results[ResultPos(p)].score =
                CompositeScore(_vibe_score(request.user_tags, Place(p).watrs_tags),
                               5000, Place(p).hidden_percentile)

\* C20: whenever the fetch of a top-K candidate fails, the
\* candidate keeps exactly its phase-2 score and is not zeroed.
C20_FallbackKeepsScore ==
    [][ (ValidatedOne /\ pc' = "phase3" /\ LastLogged.returned_none) =>
          /\ scored'[idx].score = scored[idx].score
          /\ scored'[idx].score > 0
      ]_vars

VibeReturned == call.fn = "_vibe_score" /\ call.returned

\* the tags of a list, upper-case letters replaced by hand
Folded(tags) ==
    { IF tags[k] = Str_Nature THEN Str_nature ELSE tags[k] : k \in 1..Len(tags) }

\* C13: the vibe score is |intersection| / |union| of the two lower-cased
\* tag sets and 0 when either list is empty; {nature, trekking} against
\* {nature, beach} gives 1/3; tags differing only in case count as equal.
C13_VibeIsJaccard ==
    VibeReturned =>
        LET u == Folded(call.user_tags)
            p == Folded(call.place_tags)
            r == call.result
        IN  /\ r[2] > 0
            /\ (call.user_tags = << >> \/ call.place_tags = << >>) => r[1] = 0
            /\ (call.user_tags # << >> /\ call.place_tags # << >>) =>
                   r[1] * Cardinality(u \cup p) = Cardinality(u \cap p) * r[2]
            /\ (call.user_tags = << Str_nature, Str_trekking >>
                  /\ call.place_tags = << Str_nature, Str_beach >>) => 3 * r[1] = r[2]
            /\ (call.user_tags = << Str_Nature >> /\ call.place_tags = << Str_nature >>)
                   => r[1] = r[2]

\* the call of the example, with one tag in another case, has returned 1/3
C13_Witness ==
    /\ VibeReturned
    /\ call.user_tags = << Str_Nature, Str_trekking >>
    /\ call.place_tags = << Str_nature, Str_beach >>
    /\ call.result = << 1, 3 >>

ComfortReturned == call.fn = "_comfort_from_weather" /\ call.returned

\* clamp(1 - |temp_c - 22| / 28, 0, 1) as a number of 280ths
Clamp280(temp) ==
    IF Abs(temp - 220) >= 280 THEN 0 ELSE 280 - Abs(temp - 220)

AdverseTexts == { Str_LightRain, Str_PatchyDrizzle }

\* C17 as stated: the comfort of a well-formed reading is exactly
\* clamp(1 - |temp_c - 22| / 28, 0, 1), halved on an adverse condition.
C17_ComfortIsExactFormula ==
    ComfortReturned =>
        IF call.text \in AdverseTexts
        THEN call.result * 2 * 280 = Clamp280(call.temp_c) * ONE
        ELSE call.result * 280 = Clamp280(call.temp_c) * ONE

\* C17 amended: the comfort of a well-formed reading is
\* clamp(1 - |temp_c - 22| / 28, 0, 1), halved on an adverse condition, rounded
\* to 4 decimals; it lies in [0, 1], is exactly 1 at 22 degrees without an
\* adverse condition and at most 0.5 with one.
C17_ComfortIsRoundedFormula ==
    ComfortReturned =>
        LET den == IF call.text \in AdverseTexts THEN 2 * 280 ELSE 280
            r == call.result
        IN  /\ 2 * Abs(r * den - Clamp280(call.temp_c) * ONE) <= den
            /\ 0 <= r /\ r <= ONE
            /\ (call.temp_c = 220 /\ call.text \notin AdverseTexts) => r = ONE
            /\ call.text \in AdverseTexts => r <= 5000

\* a reading of 23 degrees and drizzle has returned 0.4821 (0.48214... rounded)
C17_Witness ==
    /\ ComfortReturned
    /\ call.temp_c = 230
    /\ call.text = Str_PatchyDrizzle
    /\ call.result = 4821

\* the calls of one type on place p that update_one has served
Served(p, feedback_type) ==
    { i \in 1..MaxFeedback : /\ feedback[i].status = 200
                             /\ ObjectIdOf(feedback[i].place_id) = p
                             /\ feedback[i].feedback_type = feedback_type }

\* C19: whatever the interleaving of the calls, the trust score of a place
\* has moved by 0.1 * (served LIKEs - served DISLIKEs), a SAFETY_ALERT has
\* cleared verified_by_human and left the score alone, and no call has set
\* verified_by_human to true.
C19_FeedbackUpdatesAreAtomic ==
    \A p \in PlaceIds :
        /\ store[p].community_trust_score =
               InitialStore[p].community_trust_score
                   + Cardinality(Served(p, "like")) - Cardinality(Served(p, "dislike"))
        /\ store[p].verified_by_human =
               (InitialStore[p].verified_by_human /\ Served(p, "safety_alert") = {})

\* two LIKEs on place 1 have both been served
C19_Witness ==
    /\ Cardinality(Served(1, "like")) = 2
    /\ store[1].community_trust_score = 2
    /\ store[1].verified_by_human

\* a list of entries or of results without the fields feedback updates and
\* without the working field _weather_comfort
Visible(lst) ==
    [k \in 1..Len(lst) |->
        [place |-> lst[k].place,
         score |-> lst[k].score,
         dist_meters |-> lst[k].dist_meters,
         weather_fallback |-> lst[k].weather_fallback]]

\* C14: the run over the store as feedback has left it and the run over the
\* store as it first was hold, step by step, the same candidates in the same
\* order with the same scores and flags, and return the same results; no
\* step of the request writes to the store.
C14_ResultIndependentOfFeedback ==
    /\ [](/\ Visible(scored) = Visible(twin.scored)
          /\ Done => /\ twin.response # << >>
                     /\ Visible(Results) = Visible(twin.response[1].results)
                     /\ response[1].total_candidates = twin.response[1].total_candidates)
    /\ [][request_vars' # request_vars => store' = store]_vars

\* two runs have answered with three results; between the snapshots they
\* read, the trust score of one result and the verification flag of another
\* differ, and the store has been written again since
C14_Witness ==
    /\ Done
    /\ Len(Results) = 3
    /\ \E k \in 1..Len(Results) :
         Results[k].community_trust_score
             # twin.response[1].results[k].community_trust_score
    /\ \E k \in 1..Len(Results) :
         Results[k].verified_by_human # twin.response[1].results[k].verified_by_human
    /\ \E k \in 1..Len(candidates_raw) :
         store[candidates_raw[k].place_id].community_trust_score
             # candidates_raw[k].community_trust_score

\* p passed phase 2 and, if it was validated, its phase-3 comfort is at
\* least 0.4
PassesValidation(p) ==
    /\ p \in RankedPlaces
    /\ p \in FetchedPlaces => LogOf(p).comfort >= MIN_COMFORT_SCORE

\* C21: a candidate passes phase 2 iff its road is not boat_only and its
\* comfort of the current month is at least 0.4; in every response, a
\* candidate the store returned is in results iff it passed phase 2 and, when
\* it was among the top min(5, N), its phase-3 comfort is at least 0.4; every
\* entry of results has a score above zero, and every candidate the final
\* pass drops is one that validation zeroed.
C21_InResultsIffPassesEveryRule ==
    /\ [][ (pc = "phase2" /\ idx' = idx + 1) =>
             LET p == candidates_raw[idx].place_id
             IN  (\E k \in 1..Len(scored') : scored'[k].place = p)
                   <=> /\ Place(p).road_access # "boat_only"
                       /\ _current_month_comfort(Place(p).weather_comfort_history, month)
                              >= MIN_COMFORT_SCORE
         ]_vars
    /\ [](Done =>
            /\ \A p \in RawPlaces : p \in ResultPlaces <=> PassesValidation(p)
            /\ \A k \in 1..Len(Results) : Results[k].score > 0
            /\ \A p \in RankedPlaces \ ResultPlaces :
                   /\ p \in FetchedPlaces
                   /\ LogOf(p).comfort < MIN_COMFORT_SCORE)

\* a response to a request whose candidates met every fate: one excluded for
\* its road, one for its history, one zeroed by validation, one validated
\* and kept, one kept without validation
C21_Witness ==
    /\ Done
    /\ \E p \in RawPlaces : Place(p).road_access = "boat_only"
    /\ \E p \in RawPlaces \ RankedPlaces : Place(p).road_access # "boat_only"
    /\ FetchedPlaces \ ResultPlaces # {}
    /\ FetchedPlaces \cap ResultPlaces # {}
    /\ ResultPlaces \ FetchedPlaces # {}

====
